---- MODULE Spec2Model ----
(***************************************************************************)
(* checksec: src/main.rs.  main() dispatches on the argument vector to a   *)
(* single-file scan (parse) or a directory scan (walk); parse() opens and  *)
(* maps one file, classifies it with Object::parse and builds one Binary   *)
(* record per architecture slice; walk() feeds every regular file of the   *)
(* traversal to parse() and either prints the records as it goes or        *)
(* buffers them for one JSON document.                                     *)
(*                                                                         *)
(* The file system and the traversal are the environment: what a path      *)
(* holds is drawn when the program first looks at it.  Vec indices are     *)
(* 0-based in the source and 1-based here (argv[1] in Rust is argv[2]).    *)
(***************************************************************************)
EXTENDS Integers, Sequences, FiniteSets, TLC

\* Bounds of the model.
MaxFiles == 2       \* items the directory traversal yields at most
MaxArches == 2      \* architecture entries of a fat Mach-O at most
MaxArgc == 5        \* longest argument vector, program name included

\* Exit status of a Rust process whose main thread panicked.
PanicStatus == 101

VARIABLES
    argv,       \* env::args_os(): the argument vector, argv[1] the program name
    rootOk,     \* whether the root path of a -d scan can be traversed
    pc,         \* position of the program
    mode,       \* "none", "f" (parse called from main) or "d" (from walk)
    json,       \* the json flag computed by main
    yielded,    \* number of items the traversal has yielded so far
    cur,        \* what the file handed to parse() holds
    file,       \* the path handed to parse()
    mappings,   \* number of live memory mappings
    fat_bins,   \* parse(): the Vec built by the fat branch
    idx,        \* parse(): position of the fat loop
    result,     \* the value parse() returned last
    bins,       \* walk(): the buffer of records
    k,          \* position of the running print loop
    out,        \* what was written to standard output, in order
    status,     \* exit status once the process has ended
    \* history of the run (not program state)
    nFiles,     \* regular files the traversal has yielded
    nReturned,  \* calls of parse() that returned
    nRejected,  \* of those, calls that returned Err
    resultSet   \* concatenation of the Ok values parse() returned, in call order

vars == <<argv, rootOk, pc, mode, json, yielded, cur, file, mappings, fat_bins,
          idx, result, bins, k, out, status, nFiles, nReturned, nRejected,
          resultSet>>

----------------------------------------------------------------------------
\* Argument vectors

NonUtf8 == "<non-utf8>"     \* an OsString that is not valid UTF-8
None == "<none>"

Tokens(i) ==
    IF i = 1 THEN {"checksec"}
    ELSE IF i = 2 THEN {"-f", "-d", "-x", NonUtf8}
    ELSE IF i = 3 THEN {"p"}
    ELSE {"--json", "-x"}

AllTokens == UNION {Tokens(i) : i \in 1..MaxArgc}

ArgVectors ==
    UNION { {a \in [1..n -> AllTokens] : \A i \in 1..n : a[i] \in Tokens(i)} :
            n \in 1..MaxArgc }

\* OsStr::to_str
ToStr(os) == IF os = NonUtf8 THEN None ELSE os

\* Path::display().to_string() of a path that is valid UTF-8
Display(path) == path

----------------------------------------------------------------------------
\* What a file holds, as parse() can observe it

Slice(extract, is_64) == [extract |-> extract, is_64 |-> is_64]

Slices == {Slice(TRUE, TRUE), Slice(TRUE, FALSE), Slice(FALSE, FALSE)}

ArchLists == UNION { [1..n -> Slices] : n \in 0..MaxArches }

Obj(kind, is_64, arches) == [kind |-> kind, is_64 |-> is_64, arches |-> arches]

\* Outcomes of goblin's Object::parse: an error, Object::Unknown,
\* Object::Archive, Object::Elf, Object::PE, Mach::Binary, Mach::Fat.
Objects ==
    {Obj(kd, FALSE, <<>>) : kd \in {"ParseError", "Unknown", "Archive"}}
    \cup {Obj(kd, b, <<>>) : kd \in {"Elf", "PE", "MachBinary"}, b \in BOOLEAN}
    \cup {Obj("Fat", FALSE, a) : a \in ArchLists}

NoObject == Obj("Unknown", FALSE, <<>>)

FileDesc(openable, mappable, object) ==
    [openable |-> openable, mappable |-> mappable, object |-> object]

Unopenable == FileDesc(FALSE, FALSE, NoObject)
Unmappable == FileDesc(TRUE, FALSE, NoObject)    \* e.g. a zero-byte file

Files == {Unopenable, Unmappable} \cup {FileDesc(TRUE, TRUE, o) : o \in Objects}

\* Items of the traversal: an error, or an entry with its file type.
WalkItem(t, file_type, f) == [t |-> t, file_type |-> file_type, f |-> f]

WalkItems ==
    {WalkItem("Err", "none", Unopenable)}
    \cup {WalkItem("Ok", ft, Unopenable) : ft \in {"none", "dir", "symlink"}}
    \cup {WalkItem("Ok", "file", f) : f \in Files}

----------------------------------------------------------------------------
\* Records and results

Binary(binarytype, path, variant, is_64) ==
    [binarytype |-> binarytype,
     file       |-> Display(path),
     properties |-> [variant |-> variant, is_64 |-> is_64]]

Ok(b) == [ok |-> TRUE, err |-> "", bins |-> b]
Err(e) == [ok |-> FALSE, err |-> e, bins |-> <<>>]

\* Items written to standard output
Line(bin) == [t |-> "line", binaries |-> <<bin>>]
JsonDoc(b) == [t |-> "json", binaries |-> b]
UsageMsg == [t |-> "usage", binaries |-> <<>>]

----------------------------------------------------------------------------
\* parse(): the records it builds

\* the word-size test inverted
ElfBinary_Inverted(elf, path) ==
    Binary(IF elf.is_64 THEN "Elf32" ELSE "Elf64", path, "Elf", elf.is_64)

ElfBinary(elf, path) ==
    Binary(IF elf.is_64 THEN "Elf64" ELSE "Elf32", path, "Elf", elf.is_64)

\* the PE results wrapped in the Elf variant
PEBinary_ElfVariant(pe, path) ==
    Binary(IF pe.is_64 THEN "PE64" ELSE "PE32", path, "Elf", pe.is_64)

PEBinary(pe, path) ==
    Binary(IF pe.is_64 THEN "PE64" ELSE "PE32", path, "PE", pe.is_64)

MachOBinary(macho, path) ==
    Binary(IF macho.is_64 THEN "MachO64" ELSE "MachO32", path, "MachO", macho.is_64)

\* one iteration of the fat loop: the record of the extracted container
FatSliceBinary(container, path) ==
    Binary(IF container.is_64 THEN "MachO64" ELSE "MachO32", path, "MachO",
           container.is_64)

\* the record inserted at the front
FatAppend_Front(v, bin) == <<bin>> \o v

\* fat_bins.append(&mut vec![bin])
FatAppend(v, bin) == v \o <<bin>>

\* the mapping is leaked
DropBuffer_Leak(m) == m

\* the mapping count once `buffer` goes out of scope
DropBuffer(m) == m - 1

\* where control goes when parse() returns
Continuation == IF mode = "d" THEN "walk_got" ELSE "main_got"

\* parse() returns r; dropped says whether a mapping was in scope
Return(r, dropped) ==
    /\ result' = r
    /\ mappings' = IF dropped THEN DropBuffer(mappings) ELSE mappings
    /\ pc' = Continuation
    /\ nReturned' = nReturned + 1
    /\ nRejected' = IF r.ok THEN nRejected ELSE nRejected + 1
    /\ resultSet' = IF r.ok THEN resultSet \o r.bins ELSE resultSet

\* fs::File::open(file), lines 24-27
ParseOpen ==
    /\ pc = "open"
    /\ IF cur.openable
          THEN /\ pc' = "map"
               /\ UNCHANGED <<result, mappings, nReturned, nRejected, resultSet>>
          ELSE Return(Err("IO"), FALSE)
    /\ UNCHANGED <<argv, rootOk, mode, json, yielded, cur, file, fat_bins, idx,
                   bins, k, out, status, nFiles>>

\* Mmap::map(&fp), line 28; on failure control falls to line 87
ParseMap ==
    /\ pc = "map"
    /\ IF cur.mappable
          THEN /\ pc' = "object"
               /\ mappings' = mappings + 1
               /\ UNCHANGED <<result, nReturned, nRejected, resultSet>>
          ELSE Return(Err("IO"), FALSE)
    /\ UNCHANGED <<argv, rootOk, mode, json, yielded, cur, file, fat_bins, idx,
                   bins, k, out, status, nFiles>>

\* match Object::parse(&buffer)?, lines 29-66 and 84
ParseObject ==
    /\ pc = "object"
    /\ LET o == cur.object IN
       CASE o.kind = "ParseError" ->
              Return(Err("Parse"), TRUE) /\ UNCHANGED <<fat_bins, idx>>
         [] o.kind = "Elf" ->
              Return(Ok(<<ElfBinary(o, file)>>), TRUE) /\ UNCHANGED <<fat_bins, idx>>
         [] o.kind = "PE" ->
              Return(Ok(<<PEBinary(o, file)>>), TRUE) /\ UNCHANGED <<fat_bins, idx>>
         [] o.kind = "MachBinary" ->
              Return(Ok(<<MachOBinary(o, file)>>), TRUE) /\ UNCHANGED <<fat_bins, idx>>
         [] o.kind = "Fat" ->
              /\ fat_bins' = <<>>
              /\ idx' = 1
              /\ pc' = "fat"
              /\ UNCHANGED <<result, mappings, nReturned, nRejected, resultSet>>
         [] OTHER ->
              Return(Err("BadMagic"), TRUE) /\ UNCHANGED <<fat_bins, idx>>
    /\ UNCHANGED <<argv, rootOk, mode, json, yielded, cur, file, bins, k, out,
                   status, nFiles>>

\* one iteration of the loop over fatmach.iter_arches(), lines 67-80
FatSlice ==
    /\ pc = "fat"
    /\ idx <= Len(cur.object.arches)
    /\ cur.object.arches[idx].extract
    /\ fat_bins' = FatAppend(fat_bins, FatSliceBinary(cur.object.arches[idx], file))
    /\ idx' = idx + 1
    /\ UNCHANGED <<argv, rootOk, pc, mode, json, yielded, cur, file, mappings,
                   result, bins, k, out, status, nFiles, nReturned, nRejected,
                   resultSet>>

\* fatmach.get(idx).unwrap() on a slice that does not extract, line 68:
\* the thread panics, the stack unwinds and the process ends
FatUnwrapPanic ==
    /\ pc = "fat"
    /\ idx <= Len(cur.object.arches)
    /\ ~cur.object.arches[idx].extract
    /\ pc' = "panicked"
    /\ status' = PanicStatus
    /\ mappings' = DropBuffer(mappings)
    /\ UNCHANGED <<argv, rootOk, mode, json, yielded, cur, file, fat_bins, idx,
                   result, bins, k, out, nFiles, nReturned, nRejected, resultSet>>

\* return Ok(fat_bins), line 81
FatReturn ==
    /\ pc = "fat"
    /\ idx > Len(cur.object.arches)
    /\ Return(Ok(fat_bins), TRUE)
    /\ UNCHANGED <<argv, rootOk, mode, json, yielded, cur, file, fat_bins, idx,
                   bins, k, out, status, nFiles>>

----------------------------------------------------------------------------
\* walk()

\* lines 93-95: the item is an entry whose file type is a regular file
EntryIsFile(item) == item.t = "Ok" /\ item.file_type = "file"

\* the buffer is overwritten by the last result
BufferAppend_Replace(b, r) == r

\* bins.append(&mut result), line 98
BufferAppend(b, r) == b \o r

\* what the traversal can yield next
NextItems ==
    IF rootOk THEN WalkItems ELSE {WalkItem("Err", "none", Unopenable)}

\* the iterator of Walk::new(basepath) yields an item, lines 92-96
WalkNext ==
    /\ pc = "walk_next"
    /\ yielded < MaxFiles
    /\ rootOk \/ yielded = 0
    /\ \E item \in NextItems :
         /\ yielded' = yielded + 1
         /\ IF EntryIsFile(item)
               THEN /\ cur' = item.f
                    /\ file' = <<argv[3], yielded + 1>>
                    /\ pc' = "open"
                    /\ nFiles' = nFiles + 1
               ELSE UNCHANGED <<cur, file, pc, nFiles>>
    /\ UNCHANGED <<argv, rootOk, mode, json, mappings, fat_bins, idx, result,
                   bins, k, out, status, nReturned, nRejected, resultSet>>

\* the result of parse() is unwrapped: an Err panics
WalkGot_UnwrapErr ==
    /\ pc = "walk_got"
    /\ IF result.ok
          THEN IF json
                 THEN /\ bins' = BufferAppend(bins, result.bins)
                      /\ pc' = "walk_next"
                      /\ k' = k
                 ELSE /\ pc' = "walk_print"
                      /\ k' = 1
                      /\ bins' = bins
          ELSE /\ pc' = "panicked"
               /\ UNCHANGED <<bins, k>>
    /\ UNCHANGED <<argv, rootOk, mode, json, yielded, cur, file, mappings,
                   fat_bins, idx, result, out, status, nFiles, nReturned,
                   nRejected, resultSet>>

\* parse() has returned to walk(), lines 96-104
WalkGot ==
    /\ pc = "walk_got"
    /\ IF result.ok
          THEN IF json
                 THEN /\ bins' = BufferAppend(bins, result.bins)
                      /\ pc' = "walk_next"
                      /\ k' = k
                 ELSE /\ pc' = "walk_print"
                      /\ k' = 1
                      /\ bins' = bins
          ELSE /\ pc' = "walk_next"
               /\ UNCHANGED <<bins, k>>
    /\ UNCHANGED <<argv, rootOk, mode, json, yielded, cur, file, mappings,
                   fat_bins, idx, result, out, status, nFiles, nReturned,
                   nRejected, resultSet>>

\* the records are printed last to first
WalkPrint_Reversed ==
    /\ pc = "walk_print"
    /\ IF k <= Len(result.bins)
          THEN /\ out' = Append(out, Line(result.bins[Len(result.bins) + 1 - k]))
               /\ k' = k + 1
               /\ pc' = pc
          ELSE /\ pc' = "walk_next"
               /\ UNCHANGED <<out, k>>
    /\ UNCHANGED <<argv, rootOk, mode, json, yielded, cur, file, mappings,
                   fat_bins, idx, result, bins, status, nFiles, nReturned,
                   nRejected, resultSet>>

\* for bin in result.iter() { println!("{}", bin) }, lines 100-102
WalkPrint ==
    /\ pc = "walk_print"
    /\ IF k <= Len(result.bins)
          THEN /\ out' = Append(out, Line(result.bins[k]))
               /\ k' = k + 1
               /\ pc' = pc
          ELSE /\ pc' = "walk_next"
               /\ UNCHANGED <<out, k>>
    /\ UNCHANGED <<argv, rootOk, mode, json, yielded, cur, file, mappings,
                   fat_bins, idx, result, bins, status, nFiles, nReturned,
                   nRejected, resultSet>>

\* the document is written only when the buffer holds a record
WalkFinish_SkipEmpty ==
    /\ pc = "walk_next"
    /\ out' = IF json /\ bins # <<>> THEN Append(out, JsonDoc(bins)) ELSE out
    /\ pc' = "done"
    /\ status' = 0
    /\ UNCHANGED <<argv, rootOk, mode, json, yielded, cur, file, mappings,
                   fat_bins, idx, result, bins, k, nFiles, nReturned, nRejected,
                   resultSet>>

\* the traversal is exhausted, lines 108-112; main returns
WalkFinish ==
    /\ pc = "walk_next"
    /\ out' = IF json THEN Append(out, JsonDoc(bins)) ELSE out
    /\ pc' = "done"
    /\ status' = 0
    /\ UNCHANGED <<argv, rootOk, mode, json, yielded, cur, file, mappings,
                   fat_bins, idx, result, bins, k, nFiles, nReturned, nRejected,
                   resultSet>>

----------------------------------------------------------------------------
\* main()

\* let json = argv.len() == 4 && argv[3] == "--json", line 123
JsonFlag(a) == Len(a) = 4 /\ a[4] = "--json"

\* usage(), lines 114-117
Usage ==
    /\ out' = Append(out, UsageMsg)
    /\ status' = 0
    /\ pc' = "exited"
    /\ UNCHANGED <<mode, json, cur, file>>

\* main() up to the call of walk() or parse(), lines 119-128 and 141-146
Main ==
    /\ pc = "main"
    /\ IF Len(argv) \in 3..4
          THEN LET opt == ToStr(argv[2]) IN
               CASE opt = None ->
                      /\ pc' = "done"
                      /\ status' = 0
                      /\ UNCHANGED <<mode, json, cur, file, out>>
                 [] opt = "-d" ->
                      /\ json' = JsonFlag(argv)
                      /\ mode' = "d"
                      /\ pc' = "walk_next"
                      /\ UNCHANGED <<cur, file, out, status>>
                 [] opt = "-f" ->
                      /\ json' = JsonFlag(argv)
                      /\ mode' = "f"
                      /\ \E f \in Files : cur' = f
                      /\ file' = <<argv[3]>>
                      /\ pc' = "open"
                      /\ UNCHANGED <<out, status>>
                 [] OTHER -> Usage
          ELSE Usage
    /\ UNCHANGED <<argv, rootOk, yielded, mappings, fat_bins, idx, result, bins,
                   k, nFiles, nReturned, nRejected, resultSet>>

\* parse() has returned to main(), lines 128-139
MainGot ==
    /\ pc = "main_got"
    /\ IF result.ok
          THEN IF json
                 THEN /\ out' = Append(out, JsonDoc(result.bins))
                      /\ pc' = "done"
                      /\ status' = 0
                      /\ k' = k
                 ELSE /\ pc' = "main_print"
                      /\ k' = 1
                      /\ UNCHANGED <<out, status>>
          ELSE /\ pc' = "done"
               /\ status' = 0
               /\ UNCHANGED <<out, k>>
    /\ UNCHANGED <<argv, rootOk, mode, json, yielded, cur, file, mappings,
                   fat_bins, idx, result, bins, nFiles, nReturned, nRejected,
                   resultSet>>

\* for result in results.iter() { println!("{}", result) }, lines 135-137
MainPrint ==
    /\ pc = "main_print"
    /\ IF k <= Len(result.bins)
          THEN /\ out' = Append(out, Line(result.bins[k]))
               /\ k' = k + 1
               /\ UNCHANGED <<pc, status>>
          ELSE /\ pc' = "done"
               /\ status' = 0
               /\ UNCHANGED <<out, k>>
    /\ UNCHANGED <<argv, rootOk, mode, json, yielded, cur, file, mappings,
                   fat_bins, idx, result, bins, nFiles, nReturned, nRejected,
                   resultSet>>

----------------------------------------------------------------------------
\* The program

Init ==
    /\ argv \in ArgVectors
    /\ rootOk \in BOOLEAN
    /\ pc = "main"
    /\ mode = "none"
    /\ json = FALSE
    /\ yielded = 0
    /\ cur = Unopenable
    /\ file = <<>>
    /\ mappings = 0
    /\ fat_bins = <<>>
    /\ idx = 1
    /\ result = Err("")
    /\ bins = <<>>
    /\ k = 1
    /\ out = <<>>
    /\ status = -1
    /\ nFiles = 0
    /\ nReturned = 0
    /\ nRejected = 0
    /\ resultSet = <<>>

Next ==
    \/ Main
    \/ ParseOpen
    \/ ParseMap
    \/ ParseObject
    \/ FatSlice
    \/ FatUnwrapPanic
    \/ FatReturn
    \/ WalkNext
    \/ WalkGot
    \/ WalkPrint
    \/ WalkFinish
    \/ MainGot
    \/ MainPrint

Spec == Init /\ [][Next]_vars

----------------------------------------------------------------------------
\* Vocabulary of the properties

RECURSIVE Flatten(_)
\* the records of a sequence of output items, in order
Flatten(items) ==
    IF items = <<>> THEN <<>>
    ELSE items[1].binaries \o Flatten(Tail(items))

Range(sq) == {sq[i] : i \in 1..Len(sq)}

\* every record the program holds or has written
AllRecords ==
    Range(result.bins) \cup Range(fat_bins) \cup Range(bins)
    \cup Range(Flatten(out))

ElfTags == {"Elf32", "Elf64"}
PETags == {"PE32", "PE64"}
MachOTags == {"MachO32", "MachO64"}

Consistent(b) ==
    /\ b.binarytype \in ElfTags \cup PETags \cup MachOTags
    /\ b.binarytype \in ElfTags <=> b.properties.variant = "Elf"
    /\ b.binarytype \in PETags <=> b.properties.variant = "PE"
    /\ b.binarytype \in MachOTags <=> b.properties.variant = "MachO"

\* parse() has just returned for cur
Returned == pc \in {"walk_got", "main_got"}

Mapped(f) == f.openable /\ f.mappable

\* a file that cannot be opened, fails to map, fails to parse or is unrecognized
BadFile(f) ==
    \/ ~f.openable
    \/ ~f.mappable
    \/ f.object.kind \in {"ParseError", "Unknown", "Archive"}

AllExtract(arches) == \A i \in 1..Len(arches) : arches[i].extract

Tag64(tag) == tag \in {"Elf64", "PE64", "MachO64"}

----------------------------------------------------------------------------
\* C1: every record parse() builds, and every record buffered or written
\* afterwards, carries a binary_type tag of the family of its properties
\* variant: Elf tags with Elf properties, PE tags with PE properties, MachO
\* tags with MachO properties; slices of a fat archive included.
C1_TagMatchesVariant == \A b \in AllRecords : Consistent(b)

\* a finished JSON scan whose document holds the two records of a fat
\* archive with a 64-bit and a 32-bit slice
C1_Witness ==
    /\ pc = "done"
    /\ cur.object.kind = "Fat"
    /\ Len(out) = 1
    /\ out[1].t = "json"
    /\ Len(out[1].binaries) = 2
    /\ out[1].binaries[1].binarytype = "MachO64"
    /\ out[1].binaries[2].binarytype = "MachO32"

\* C2: when parse() returns for a file that opened and mapped, the number
\* of records is fixed by the classification: none (an Err) for a parse
\* error, Unknown or any other object kind; exactly one for an ELF, a PE or
\* a single Mach-O, tagged with the 64-bit tag of its family iff is_64; for a
\* fat Mach-O the sequence the fat loop built, one record per entry.
C2_RecordsByClassification ==
    (Returned /\ Mapped(cur)) =>
        LET o == cur.object IN
        CASE o.kind \in {"ParseError", "Unknown", "Archive"} ->
               ~result.ok /\ result.bins = <<>>
          [] o.kind \in {"Elf", "PE", "MachBinary"} ->
               /\ result.ok
               /\ Len(result.bins) = 1
               /\ result.bins[1].binarytype \in
                    (CASE o.kind = "Elf" -> ElfTags
                       [] o.kind = "PE" -> PETags
                       [] OTHER -> MachOTags)
               /\ Tag64(result.bins[1].binarytype) <=> o.is_64
          [] OTHER ->
               /\ result.ok
               /\ result.bins = fat_bins
               /\ Len(result.bins) = Len(o.arches)

\* parse() has returned one Elf64 record for a 64-bit ELF
C2_Witness ==
    /\ Returned
    /\ Mapped(cur)
    /\ cur.object.kind = "Elf"
    /\ cur.object.is_64
    /\ result.ok
    /\ Len(result.bins) = 1
    /\ result.bins[1].binarytype = "Elf64"

\* C3: for a fat Mach-O whose N entries all extract, the fat branch returns
\* exactly N records, the i-th built from the i-th entry: it carries the
\* scanned file's path and is MachO64 or MachO32 by that entry's own is_64;
\* and the branch does return (it does not panic).
C3_FatOnePerSliceInOrder ==
    (Mapped(cur) /\ cur.object.kind = "Fat" /\ AllExtract(cur.object.arches)) =>
        /\ pc # "panicked"
        /\ Returned =>
             /\ result.ok
             /\ Len(result.bins) = Len(cur.object.arches)
             /\ \A i \in 1..Len(result.bins) :
                  /\ result.bins[i].file = file
                  /\ result.bins[i].properties.variant = "MachO"
                  /\ result.bins[i].binarytype =
                       IF cur.object.arches[i].is_64 THEN "MachO64" ELSE "MachO32"

\* the fat branch has returned for an archive of a 32-bit slice followed by
\* a 64-bit slice
C3_Witness ==
    /\ Returned
    /\ Mapped(cur)
    /\ cur.object.kind = "Fat"
    /\ cur.object.arches = <<Slice(TRUE, FALSE), Slice(TRUE, TRUE)>>
    /\ Len(result.bins) = 2
    /\ result.bins[1].binarytype = "MachO32"
    /\ result.bins[2].binarytype = "MachO64"

RECURSIVE ExtractableRecords(_, _)
\* the records of the slices that extract, in archive order
ExtractableRecords(arches, path) ==
    IF arches = <<>> THEN <<>>
    ELSE (IF arches[1].extract
            THEN <<Binary(IF arches[1].is_64 THEN "MachO64" ELSE "MachO32",
                          path, "MachO", arches[1].is_64)>>
            ELSE <<>>)
         \o ExtractableRecords(Tail(arches), path)

\* C4 (as claimed): a slice that fails to extract is skipped: neither the
\* expansion nor the scan is aborted, and the fat branch returns the records
\* of the extractable slices in archive order.
C4_FailedSliceSkipped ==
    /\ pc # "panicked"
    /\ (Returned /\ Mapped(cur) /\ cur.object.kind = "Fat") =>
          /\ result.ok
          /\ result.bins = ExtractableRecords(cur.object.arches, file)

\* the records the scan has delivered so far: buffered, or written
Delivered ==
    IF json /\ pc # "done" THEN bins ELSE Flatten(out)

\* C5: in a directory scan a file that cannot be opened, fails to map, fails
\* to parse or is unrecognized makes parse() return Err, which adds no
\* record and never ends the scan: between two files every regular file
\* yielded so far has been scanned and the records delivered are exactly
\* the records of the files that parsed, and a finished scan has written
\* all of them.
C5_BadFileSkipped ==
    mode = "d" =>
        /\ pc = "panicked" => ~BadFile(cur)
        /\ (pc = "walk_got" /\ BadFile(cur)) => (~result.ok /\ result.bins = <<>>)
        /\ pc \in {"walk_next", "done"} =>
             /\ nReturned = nFiles
             /\ Delivered = resultSet
        /\ pc = "done" => Flatten(out) = resultSet

\* a finished scan of a directory holding a PE64 file and then a zero-byte
\* file has written exactly the PE64 record
C5_Witness ==
    /\ mode = "d"
    /\ pc = "done"
    /\ nFiles = 2
    /\ nReturned = 2
    /\ nRejected = 1
    /\ cur = Unmappable
    /\ Len(Flatten(out)) = 1
    /\ Flatten(out)[1].binarytype = "PE64"
    /\ Flatten(out)[1].file = <<argv[3], 1>>

\* C6 (as claimed): a finished --json scan, of a single file or of a tree,
\* has written exactly one document, holding the complete result set.
C6_OneDocumentAlways ==
    (json /\ pc = "done" /\ mode \in {"f", "d"}) =>
        /\ Len(out) = 1
        /\ out[1].t = "json"
        /\ out[1].binaries = resultSet

\* C6 (amended): in --json mode no record line is ever written and nothing
\* is written before the scan ends; a finished tree scan has written
\* exactly one document, holding every Ok value of parse() concatenated in
\* call order; a finished single-file scan has written one document holding
\* parse()'s records when parse() returned Ok and nothing when it returned
\* Err; a scan ended by a panic has written nothing.
C6_JsonDocumentAtEnd ==
    json =>
        /\ \A i \in 1..Len(out) : out[i].t = "json"
        /\ pc # "done" => out = <<>>
        /\ (pc = "done" /\ mode = "d") => out = <<JsonDoc(resultSet)>>
        /\ (pc = "done" /\ mode = "f") =>
             out = IF result.ok THEN <<JsonDoc(result.bins)>> ELSE <<>>
        /\ (mode = "d" /\ pc = "walk_next") => bins = resultSet

\* a finished --json tree scan whose one document holds the records of two
\* files, the first file's record first
C6_Witness ==
    /\ json
    /\ mode = "d"
    /\ pc = "done"
    /\ nFiles = 2
    /\ Len(out) = 1
    /\ Len(out[1].binaries) >= 2
    /\ out[1].binaries[1].file = <<argv[3], 1>>
    /\ out[1].binaries[Len(out[1].binaries)].file = <<argv[3], 2>>

\* C7: in text mode during a tree scan every output item is a record line,
\* nothing is buffered, and the lines written are the records parse() has
\* returned so far, in order: all of them whenever walk() is between two
\* files, all of the earlier files' while a file is being opened, mapped and
\* parsed, and those plus the first k-1 of the current file's while its
\* records are being printed.  No invocation writes both lines and a
\* document.
C7_StreamedInOrder ==
    /\ ~(\E i, j \in 1..Len(out) : out[i].t = "line" /\ out[j].t = "json")
    /\ (mode = "d" /\ ~json) =>
        /\ bins = <<>>
        /\ \A i \in 1..Len(out) : out[i].t = "line"
        /\ pc \in {"walk_next", "done", "open", "map", "object", "fat", "panicked"} =>
             Flatten(out) = resultSet
        /\ (pc = "walk_got" /\ result.ok) =>
             Flatten(out) \o result.bins = resultSet
        /\ pc = "walk_print" =>
             /\ k <= Len(result.bins) + 1
             /\ Flatten(out) \o SubSeq(result.bins, k, Len(result.bins)) = resultSet

\* the second file of a text-mode tree scan is being opened after both
\* records of the first, a fat archive, were written
C7_Witness ==
    /\ mode = "d"
    /\ ~json
    /\ pc = "open"
    /\ nFiles = 2
    /\ Len(out) = 2
    /\ out[1].binaries[1].binarytype = "MachO64"
    /\ out[2].binaries[1].binarytype = "MachO32"

\* the argument shapes '<-f|-d> <path>' and '<-f|-d> <path> --json'
AcceptedShape(a) ==
    /\ Len(a) \in {3, 4}
    /\ a[2] \in {"-f", "-d"}
    /\ Len(a) = 4 => a[4] = "--json"

\* C8 (as claimed): for every argument vector of another shape the program
\* prints the usage message, scans nothing and exits with status 0; for the
\* accepted shapes it does not print the usage message.
C8_UsageOnOtherShapes ==
    pc # "main" =>
        IF AcceptedShape(argv)
          THEN mode \in {"f", "d"} /\ \A i \in 1..Len(out) : out[i] # UsageMsg
          ELSE /\ pc = "exited"
               /\ status = 0
               /\ out = <<UsageMsg>>
               /\ mode = "none"
               /\ nReturned = 0

\* C9 (as claimed): when the root of a -d scan cannot be traversed, nothing
\* is written in either output mode.
C9_NothingWritten ==
    (mode = "d" /\ ~rootOk) => out = <<>>

\* C9 (amended): when the root of a -d scan cannot be traversed, no file is
\* scanned and no record is produced; text mode writes nothing, and --json
\* mode writes, at the end, exactly one document whose binaries collection
\* is empty.
C9_NoRecordOnBadRoot ==
    (mode = "d" /\ ~rootOk) =>
        /\ nFiles = 0
        /\ nReturned = 0
        /\ bins = <<>>
        /\ pc \in {"walk_next", "done"}
        /\ out = IF json /\ pc = "done" THEN <<JsonDoc(<<>>)>> ELSE <<>>
        /\ pc = "done" => status = 0

\* a finished --json scan of an untraversable root, after the traversal
\* yielded its error
C9_Witness ==
    /\ mode = "d"
    /\ ~rootOk
    /\ json
    /\ yielded = 1
    /\ pc = "done"
    /\ out = <<JsonDoc(<<>>)>>

\* C10: at most one mapping is live at any time: one while parse() holds
\* the buffer (classification and the fat loop), none at any other position,
\* in particular none once parse() has returned, on any return path, and
\* none when the next file is opened.
C10_OneMappingAtMost ==
    /\ mappings \in {0, 1}
    /\ mappings = 1 <=> pc \in {"object", "fat"}

\* the second file of a tree scan is mapped after the first, which was
\* mapped too, returned records: one mapping is live
C10_Witness ==
    /\ mode = "d"
    /\ pc = "object"
    /\ nFiles = 2
    /\ nReturned = 1
    /\ nRejected = 0
    /\ resultSet # <<>>
    /\ mappings = 1

====
